---------------------------- MODULE Spec2Model ----------------------------
(***************************************************************************)
(* A model of mcp_bible.bible_service.BibleService: the splitting of a     *)
(* composite reference, the fetch of one page per reference, the           *)
(* extraction of the passage text from the page's element tree and the     *)
(* result envelope of fetch_passage; the MCP tool and the REST endpoint    *)
(* that call it; and calls that run together on one service, as tasks of   *)
(* one asyncio event loop.                                                 *)
(*                                                                         *)
(* A string is a sequence of one-character strings.  A page is the element *)
(* tree BeautifulSoup builds from it, written as the sequence of its nodes *)
(* in document order, each naming its parent (0: the document itself).     *)
(***************************************************************************)
EXTENDS Integers, Sequences, FiniteSets, TLC

(***************************************************************************)
(* Bounds of the model.                                                    *)
(***************************************************************************)
\* longest passage string given to fetch_passage
MaxPassageLen == 5
\* nodes appended to a seed page before it is parsed
MaxAppend == 2

(***************************************************************************)
(* The state: one BibleService with the call of fetch_passage on it, and   *)
(* the page given to _parse_passage on its own.                            *)
(***************************************************************************)
VARIABLES
    client,    \* self._client: 0 for None, else the number of the AsyncClient
    created,   \* how many AsyncClients were constructed
    pc,        \* "idle", "fetching" (at an await of _fetch_html) or "done"
    passage,   \* the call's passage
    version,   \* the call's version
    passages,  \* line 73
    results,   \* line 77
    inflight,  \* the requests awaited
    log,       \* the requests of this call, in the order they were sent
    resps,     \* what they came to, in the order of arrival
    envelope,  \* what the call returned
    escaped,   \* the exception that left fetch_passage, NoException if none
    reply      \* what the caller of the last call got, NoReply during a call

svars == <<client, created, pc, passage, version, passages, results, inflight,
           log, resps, envelope, escaped, reply>>

VARIABLES
    doc,     \* the page under construction, then parsed
    extra,   \* the nodes appended to the seed page
    ppc,     \* "build" or "parsed"
    verses,  \* the list `verses` of _parse_passage(doc), None before there is one
    out      \* what _parse_passage(doc) returned

pvars == <<doc, extra, ppc, verses, out>>

VARIABLES
    calls,     \* the calls of fetch_passage that run together on the one service
    running,   \* the call the event loop runs, 0 when every call is at an await
    past       \* how calls on the service have ended so far: a set of
               \* "returned" (an envelope with text), "failed", "cancelled"

tvars == <<calls, running, past>>

vars == <<svars, pvars, tvars>>

(***************************************************************************)
(* Python values: None, and the strings.                                   *)
(***************************************************************************)
None == [isNone |-> TRUE, s |-> <<>>]
Some(s) == [isNone |-> FALSE, s |-> s]

\* no exception raised, no envelope returned
NoException == [cls |-> "", msg |-> <<>>]
NoEnvelope == [returned |-> FALSE]
NoReply == [layer |-> "none"]

\* the calls that may run together
Tasks == {1, 2}

\* a call that has not begun: the locals of fetch_passage and of _fetch_html
IdleCall ==
    [pc |-> "idle", passage |-> <<>>, version |-> "", passages |-> <<>>, ix |-> 0,
     saw |-> 0, results |-> <<>>, sent |-> <<>>, resps |-> <<>>,
     envelope |-> NoEnvelope, escaped |-> NoException, after |-> {}, began |-> 0]

\* the characters str.strip() removes
Whitespace == {" ", "\n", "\t"}

RECURSIVE LStrip(_)
LStrip(s) ==
    IF s = <<>> THEN s
    ELSE IF Head(s) \in Whitespace THEN LStrip(Tail(s)) ELSE s

RECURSIVE RStrip(_)
RStrip(s) ==
    IF s = <<>> THEN s
    ELSE IF s[Len(s)] \in Whitespace THEN RStrip(SubSeq(s, 1, Len(s) - 1)) ELSE s

\* str.strip()
Strip(s) == RStrip(LStrip(s))

RECURSIVE SplitAcc(_, _, _, _)
SplitAcc(s, sep, cur, acc) ==
    IF s = <<>> THEN Append(acc, cur)
    ELSE IF Head(s) = sep THEN SplitAcc(Tail(s), sep, <<>>, Append(acc, cur))
    ELSE SplitAcc(Tail(s), sep, Append(cur, Head(s)), acc)

\* str.split(sep): the segments between the separators, empty ones included
StrSplit(s, sep) == SplitAcc(s, sep, <<>>, <<>>)

RECURSIVE StrJoin(_, _)
\* sep.join(parts)
StrJoin(sep, parts) ==
    IF parts = <<>> THEN <<>>
    ELSE IF Len(parts) = 1 THEN parts[1]
    ELSE parts[1] \o sep \o StrJoin(sep, Tail(parts))

\* Python's truth value of a str | None
Truthy(v) == ~v.isNone /\ v.s # <<>>

(***************************************************************************)
(* fetch_passage, line 73: the list of single references.                  *)
(***************************************************************************)
\* a variant that keeps the segments as they stand, not stripped
SplitPassagesUntrimmed(str) ==
    SelectSeq(StrSplit(str, ";"), LAMBDA p : Strip(p) # <<>>)

SplitPassages(str) ==
    LET segs == StrSplit(str, ";")
        stripped == [i \in 1..Len(segs) |-> Strip(segs[i])]
    IN SelectSeq(stripped, LAMBDA p : p # <<>>)

(***************************************************************************)
(* The element tree.                                                       *)
(***************************************************************************)
El(tag, cls, parent) == [tag |-> tag, cls |-> cls, parent |-> parent, text |-> <<>>]
Tx(s, parent) == [tag |-> "#text", cls |-> {}, parent |-> parent, text |-> s]

RECURSIVE IsUnder(_, _, _)
\* node i lies inside the subtree of node j (i is a proper descendant of j)
IsUnder(d, i, j) ==
    IF i = 0 THEN FALSE
    ELSE IF d[i].parent = j THEN TRUE
    ELSE IsUnder(d, d[i].parent, j)

\* the nodes of `alive` under node j, j = 0 being the whole document
Descendants(d, alive, j) ==
    {i \in alive : j = 0 \/ IsUnder(d, i, j)}

RECURSIVE SetToSeq(_)
\* a set of node numbers in document order
SetToSeq(S) ==
    IF S = {} THEN <<>>
    ELSE LET m == CHOOSE x \in S : \A y \in S : x <= y
         IN <<m>> \o SetToSeq(S \ {m})

\* Tag.find_all(tags, class_=classes) below node j: the elements with one of the
\* tags and, when classes are given, one of the classes
FindAll(d, alive, j, tags, classes) ==
    {i \in Descendants(d, alive, j) :
        /\ d[i].tag \in tags
        /\ classes = {} \/ d[i].cls \cap classes # {}}

\* Tag.decompose() of every node of `found`: the nodes and all below them leave the tree
Decompose(d, alive, found) ==
    {i \in alive : i \notin found /\ \A j \in found : ~IsUnder(d, i, j)}

\* Tag.get_text(" ", strip=True): the text nodes below node j, each stripped, the
\* empty ones dropped, joined by one space
GetText(d, alive, j) ==
    LET texts == SetToSeq({i \in Descendants(d, alive, j) : d[i].tag = "#text"})
        stripped == [k \in 1..Len(texts) |-> Strip(d[texts[k]].text)]
    IN StrJoin(<<" ">>, SelectSeq(stripped, LAMBDA t : t # <<>>))

(***************************************************************************)
(* _parse_passage, lines 184-232.                                          *)
(***************************************************************************)
AllNodes(d) == 1..Len(d)

\* soup.find("div", class_="passage-text"): the first one in document order, 0 if none
PassageDiv(d) ==
    LET found == FindAll(d, AllNodes(d), 0, {"div"}, {"passage-text"})
    IN IF found = {} THEN 0 ELSE CHOOSE x \in found : \A y \in found : x <= y

\* lines 192-195
RemoveBlocks(d, alive, pd) ==
    Decompose(d, alive,
        FindAll(d, alive, pd, {"div", "h4"}, {"footnotes", "crossrefs", "passage-other-trans"}))

\* lines 198-199
RemoveHeaders(d, alive, pd) ==
    Decompose(d, alive, FindAll(d, alive, pd, {"h3"}, {}))

\* a variant that leaves the links in the tree
RemoveLinksNot(d, alive, pd) == alive

\* lines 202-203
RemoveLinks(d, alive, pd) ==
    Decompose(d, alive, FindAll(d, alive, pd, {"a"}, {}))

\* lines 206-209
RemoveMarkers(d, alive, pd) ==
    Decompose(d, alive, FindAll(d, alive, pd, {"sup"}, {"footnote", "crossreference"}))

\* the tree after the four removals
Cleaned(d, pd) ==
    LET a1 == RemoveBlocks(d, AllNodes(d), pd)
        a2 == RemoveHeaders(d, a1, pd)
        a3 == RemoveLinks(d, a2, pd)
    IN RemoveMarkers(d, a3, pd)

\* the texts of the elements `els`, in order, the empty ones left out
TextsOf(d, alive, els) ==
    LET all == [k \in 1..Len(els) |-> GetText(d, alive, els[k])]
    IN SelectSeq(all, LAMBDA t : t # <<>>)

\* lines 215-218: every p below the container
Paragraphs(d, alive, pd) ==
    TextsOf(d, alive, SetToSeq(FindAll(d, alive, pd, {"p"}, {})))

RECURSIVE PoetryLinesOf(_, _, _)
PoetryLinesOf(d, alive, divs) ==
    IF divs = <<>> THEN <<>>
    ELSE TextsOf(d, alive, SetToSeq(FindAll(d, alive, Head(divs), {"p"}, {"line"})))
         \o PoetryLinesOf(d, alive, Tail(divs))

\* lines 221-225: every p.line below every div.poetry below the container
PoetryLines(d, alive, pd) ==
    PoetryLinesOf(d, alive, SetToSeq(FindAll(d, alive, pd, {"div"}, {"poetry"})))

\* the list `verses` of line 212 when the loops are done
Verses(d, pd) ==
    LET alive == Cleaned(d, pd)
    IN Paragraphs(d, alive, pd) \o PoetryLines(d, alive, pd)

\* a variant without the test of line 229
ScriptureOrEmpty(scripture) == Some(scripture)

\* lines 227-232
ScriptureOrNone(scripture) ==
    IF Strip(scripture) = <<>> THEN None ELSE Some(scripture)

\* lines 187-225: None without the container, else the list `verses`
Collected(d) ==
    LET pd == PassageDiv(d)
    IN IF pd = 0 THEN None ELSE Some(Verses(d, pd))

\* lines 188-189 and 227-232: what is returned for what was collected
Scripture(collected) ==
    IF collected.isNone THEN None
    ELSE ScriptureOrNone(StrJoin(<<"\n">>, collected.s))

ParsePassage(d) == Scripture(Collected(d))


(***************************************************************************)
(* Pages: the trees _parse_passage is given.                               *)
(***************************************************************************)
Container(parent) == El("div", {"passage-text"}, parent)

\* no markup at all
PageEmpty == <<>>

\* one verse paragraph in the container
PageVerse ==
    << Container(0), El("p", {}, 1), Tx(<<"x">>, 2) >>

\* a page without the container: an error page of the site
PageNoContainer ==
    << El("div", {"content"}, 0), El("p", {}, 1), Tx(<<"n">>, 2) >>

\* a container with nothing but removable content
PageOnlyNotes ==
    << Container(0), El("h3", {}, 1), Tx(<<"n">>, 2),
       El("div", {"footnotes"}, 1), El("p", {}, 4), Tx(<<"n">>, 5) >>

\* a container whose only paragraph holds nothing but white space
PageBlank ==
    << Container(0), El("p", {}, 1), Tx(<<" ">>, 2),
       El("span", {"text"}, 2), Tx(<<"\n", " ">>, 4) >>

\* a heading, footnote and cross-reference markers, links and the blocks of notes
\* around two verse paragraphs, the first with a verse number
PageNotes ==
    << Container(0),
       El("h3", {}, 1), Tx(<<"n">>, 2),
       El("p", {}, 1),
         El("sup", {"versenum"}, 4), Tx(<<"x">>, 5),
         Tx(<<" ", "x">>, 4),
         El("sup", {"footnote"}, 4), Tx(<<"n">>, 8),
         El("a", {}, 4), Tx(<<"n">>, 10),
       El("p", {}, 1),
         Tx(<<"y", " ">>, 12),
         El("sup", {"crossreference"}, 12), El("a", {}, 14), Tx(<<"n">>, 15),
       El("div", {"footnotes"}, 1), El("p", {}, 17), Tx(<<"n">>, 18),
       El("div", {"crossrefs"}, 1), Tx(<<"n">>, 20),
       El("div", {"passage-other-trans"}, 1), Tx(<<"n">>, 22) >>

\* a poem of two lines, then one ordinary paragraph
PagePoemFirst ==
    << Container(0),
       El("div", {"poetry"}, 1),
         El("p", {"line"}, 2), Tx(<<"x">>, 3),
         El("p", {"line"}, 2), Tx(<<"y">>, 5),
       El("p", {}, 1), Tx(<<"z">>, 7) >>

\* one ordinary paragraph, then a poem of two lines
PagePoemLast ==
    << Container(0),
       El("p", {}, 1), Tx(<<"z">>, 2),
       El("div", {"poetry"}, 1),
         El("p", {"line"}, 4), Tx(<<"x">>, 5),
         El("p", {"line"}, 4), Tx(<<"y">>, 7) >>

SeedPages ==
    {PageEmpty, PageVerse, PageNoContainer, PageOnlyNotes, PageBlank, PageNotes,
     PagePoemFirst, PagePoemLast}

\* the elements and texts a page of the site is made of
ElementKinds ==
    {<<"div", {"passage-text"}>>, <<"div", {"footnotes"}>>,
     <<"h4", {"passage-other-trans"}>>, <<"div", {"poetry"}>>,
     <<"p", {}>>, <<"p", {"line"}>>, <<"h3", {}>>, <<"a", {}>>,
     <<"span", {"text"}>>, <<"sup", {"footnote"}>>, <<"sup", {"versenum"}>>}

TextKinds ==
    {<<"x">>, <<"n">>, <<" ">>, <<"x", "\n", "\n", "y">>}

\* where the next node of a page may hang: the document, the last node when it is
\* an element, or one of the last node's ancestors
OpenParents(d) ==
    {0} \cup {j \in 1..Len(d) :
                /\ d[j].tag # "#text"
                /\ j = Len(d) \/ IsUnder(d, Len(d), j)}

\* the service is left alone while a page is parsed on its own
ServiceIdle ==
    /\ client = 0
    /\ created = 0
    /\ pc = "idle"
    /\ passage = <<>>
    /\ version = ""
    /\ passages = <<>>
    /\ results = <<>>
    /\ inflight = {}
    /\ log = <<>>
    /\ resps = <<>>
    /\ envelope = NoEnvelope
    /\ escaped = NoException
    /\ reply = NoReply

\* no call runs beside the one of fetch_passage above
TasksIdle ==
    /\ calls = [t \in Tasks |-> IdleCall]
    /\ running = 0
    /\ past = {}

PInit ==
    /\ TasksIdle
    /\ ServiceIdle
    /\ doc \in SeedPages
    /\ extra = 0
    /\ ppc = "build"
    /\ verses = None
    /\ out = None

AppendElement ==
    /\ ppc = "build"
    /\ extra < MaxAppend
    /\ \E k \in ElementKinds, par \in OpenParents(doc) :
          doc' = Append(doc, El(k[1], k[2], par))
    /\ extra' = extra + 1
    /\ UNCHANGED <<ppc, verses, out, svars, tvars>>

AppendText ==
    /\ ppc = "build"
    /\ extra < MaxAppend
    /\ \E t \in TextKinds, par \in OpenParents(doc) :
          doc' = Append(doc, Tx(t, par))
    /\ extra' = extra + 1
    /\ UNCHANGED <<ppc, verses, out, svars, tvars>>

Parse ==
    /\ ppc = "build"
    /\ ppc' = "parsed"
    /\ verses' = Collected(doc)
    /\ out' = Scripture(verses')
    /\ UNCHANGED <<doc, extra, svars, tvars>>

PNext == AppendElement \/ AppendText \/ Parse

SpecParse == PInit /\ [][PNext]_vars


(***************************************************************************)
(* The upstream site: what one GET may come to.                            *)
(***************************************************************************)
PassageChars == {"a", "b", " ", ";"}

\* the passage strings a caller may give
Passages == UNION {[1..n -> PassageChars] : n \in 0..MaxPassageLen}

\* the version strings a caller may give, one of them no version of the site
Versions == {"ESV", "XYZ"}

UpstreamPages == {PageVerse, PageNoContainer, PageOnlyNotes, PagePoemLast}

\* a response with its status and page, or an exception raised by AsyncClient.get
Outcomes ==
    {[kind |-> "response", status |-> 200, page |-> d, cls |-> "", msg |-> <<>>] :
        d \in UpstreamPages}
    \cup {[kind |-> "response", status |-> st, page |-> PageNoContainer, cls |-> "", msg |-> <<>>] :
        st \in {404, 500}}
    \cup {[kind |-> "exception", status |-> 0, page |-> PageEmpty,
           cls |-> "ConnectError", msg |-> <<"r", "e", "f", "u", "s", "e", "d">>],
          [kind |-> "exception", status |-> 0, page |-> PageEmpty,
           cls |-> "ReadTimeout", msg |-> <<>>]}

\* the exception an awaited GET ends with, NoException when it returns the page:
\* the exception of AsyncClient.get, or HTTPStatusError of raise_for_status
RaisedBy(o) ==
    IF o.kind = "exception" THEN [cls |-> o.cls, msg |-> o.msg]
    ELSE IF o.status >= 200 /\ o.status < 300 THEN NoException
    ELSE [cls |-> "HTTPStatusError",
          msg |-> IF o.status = 404 THEN <<"4", "0", "4">> ELSE <<"5", "0", "0">>]

\* the classes of httpx's exceptions, all subclasses of Exception
ExceptionClasses == {"HTTPStatusError", "ConnectError", "ReadTimeout"}

\* a variant of the handler: except httpx.HTTPStatusError
CaughtStatusErrorOnly(e) == e.cls = "HTTPStatusError"

\* line 128: except Exception
CaughtByHandler(e) == e.cls \in ExceptionClasses

(***************************************************************************)
(* The envelopes of fetch_passage.                                         *)
(***************************************************************************)
ParseMissMessage ==
    << "C", "o", "u", "l", "d", " ", "n", "o", "t", " ", "p", "a", "r", "s", "e", " ",
       "p", "a", "s", "s", "a", "g", "e", " ", "t", "e", "x", "t" >>

Envelope(success, p, v, text, error) ==
    [success |-> success, passage |-> p, version |-> v, text |-> text, error |-> error]

\* a variant with the empty string for the text
MissEnvelopeEmptyText(p, v) == Envelope(FALSE, p, v, Some(<<>>), Some(ParseMissMessage))

\* lines 108-114
MissEnvelope(p, v) == Envelope(FALSE, p, v, None, Some(ParseMissMessage))

\* lines 92-98 and 120-126
SuccessEnvelope(p, v, text) == Envelope(TRUE, p, v, text, None)

\* lines 133-139
FailureEnvelope(p, v, e) == Envelope(FALSE, p, v, None, Some(e.msg))

\* a variant without the test of line 107
SingleEnvelopeUnchecked(p, v, text) == SuccessEnvelope(p, v, text)

\* lines 107-126: the single passage's envelope
SingleEnvelope(p, v, text) ==
    IF ~Truthy(text) THEN MissEnvelope(p, v) ELSE SuccessEnvelope(p, v, text)

\* a variant whose placeholder has no brackets
BlockBare(single_passage, text) ==
    IF Truthy(text) THEN single_passage \o <<"\n">> \o text.s
    ELSE single_passage \o <<"\n">> \o ParseMissMessage

\* lines 81-84: one reference's block
Block(single_passage, text) ==
    IF Truthy(text) THEN single_passage \o <<"\n">> \o text.s
    ELSE single_passage \o <<"\n", "[">> \o ParseMissMessage \o <<"]">>

\* line 86
CombinedText(blocks) == StrJoin(<<"\n", "\n">>, blocks)

\* a variant that sends the fetches of all references together
AllFetches(ps) == 1..Len(ps)

\* lines 78-79: the loop awaits its first fetch
FirstFetches(ps) == {1}

\* lines 78-79: with reference ix done, the loop awaits the next one
NextFetches(ps, ix) == IF ix < Len(ps) THEN {ix + 1} ELSE {}

\* a variant that sends the failed fetch once more
FetchesAfterFailureRetry(ps, ix) == {ix}

\* a variant whose handler stands inside the loop, which goes on
FetchesAfterFailureGoOn(ps, ix) == NextFetches(ps, ix)

\* lines 128-139: the handler returns, the loop is left
FetchesAfterFailure(ps, ix) == {}

(***************************************************************************)
(* One BibleService and the call of fetch_passage on it.                   *)
(***************************************************************************)
Init ==
    /\ ServiceIdle
    /\ TasksIdle
    /\ doc = PageEmpty
    /\ extra = 0
    /\ ppc = "build"
    /\ verses = None
    /\ out = None

\* config.py line 37: the versions the server lists as supported
SupportedVersions == {"ESV", "NIV", "KJV", "NASB", "NKJV", "NLT", "AMP", "MSG"}

\* a variant that trims the single passage before it is sent
RequestsTrimmed(p, v, ps, ixs, c) ==
    [k \in 1..Cardinality(ixs) |->
        LET ix == SetToSeq(ixs)[k]
        IN [ix |-> ix, search |-> IF ix = 0 THEN Strip(p) ELSE ps[ix], version |-> v,
            client |-> c]]

\* a variant that asks for the default version when the given one is not listed
RequestsOfSupported(p, v, ps, ixs, c) ==
    [k \in 1..Cardinality(ixs) |->
        LET ix == SetToSeq(ixs)[k]
        IN [ix |-> ix, search |-> IF ix = 0 THEN p ELSE ps[ix],
            version |-> IF v \in SupportedVersions THEN v ELSE "ESV", client |-> c]]

\* lines 155-166: the requests _fetch_html sends for the references `ixs` (0: the
\* single passage, searched as given), through the one client of the service
Requests(p, v, ps, ixs, c) ==
    [k \in 1..Cardinality(ixs) |->
        LET ix == SetToSeq(ixs)[k]
        IN [ix |-> ix, search |-> IF ix = 0 THEN p ELSE ps[ix], version |-> v, client |-> c]]

Range(f) == {f[x] : x \in DOMAIN f}

\* a variant that makes a new client for every fetch
EnsureClientFresh == created + 1

\* lines 155-156: the client of the service, made now when there is none
EnsureClient == IF client = 0 THEN created + 1 ELSE client

\* lines 155-156 and 164: make the client when there is none, send the requests
FetchHtml(reqIxs, p, v, ps, pending) ==
    LET c == EnsureClient
        reqs == Requests(p, v, ps, reqIxs, c)
    IN /\ client' = IF reqIxs = {} THEN client ELSE c
       /\ created' = IF reqIxs # {} /\ c # client THEN created + 1 ELSE created
       /\ inflight' = pending \cup Range(reqs)
       /\ log' = log \o reqs

\* the ways a call comes to the service: fetch_passage called as it is, the MCP
\* tool get_passage, the REST endpoint POST /passage
Layers == {"direct", "tool", "rest"}

\* models.py lines 9-15: passage has min_length 1, version is any string
ValidRequest(p, v) == Len(p) >= 1

Reply(layer, p, v, kind, status, cls, body, detail) ==
    [layer |-> layer, passage |-> p, version |-> v, kind |-> kind, status |-> status,
     cls |-> cls, body |-> body, detail |-> detail]

\* fetch_passage called as it is: its envelope, or the exception that left it
DirectReply(p, v, env, exc) ==
    IF exc = NoException THEN Reply("direct", p, v, "return", 0, "", env, <<>>)
    ELSE Reply("direct", p, v, "raise", 0, exc.cls, NoEnvelope, exc.msg)

\* tool.py lines 72-95: the tool returns the result; both handlers raise again
ToolReply(p, v, env, exc) ==
    IF exc = NoException THEN Reply("tool", p, v, "return", 0, "", env, <<>>)
    ELSE Reply("tool", p, v, "raise", 0, exc.cls, NoEnvelope, exc.msg)

InternalErrorDetail ==
    << "P", "a", "s", "s", "a", "g", "e", " ", "r", "e", "t", "r", "i", "e", "v", "a", "l",
       " ", "f", "a", "i", "l", "e", "d" >>

\* a variant that answers a failure envelope with status 500
RestReplyFailureAs500(p, v, env, exc) ==
    IF exc = NoException /\ env.success THEN Reply("rest", p, v, "return", 200, "", env, <<>>)
    ELSE Reply("rest", p, v, "http", 500, "HTTPException", NoEnvelope, InternalErrorDetail)

\* routes.py lines 38-51: the endpoint returns the result with status 200; a
\* ValueError becomes status 400, any other exception status 500
RestReply(p, v, env, exc) ==
    IF exc = NoException THEN Reply("rest", p, v, "return", 200, "", env, <<>>)
    ELSE IF exc.cls = "ValueError"
         THEN Reply("rest", p, v, "http", 400, "HTTPException", NoEnvelope, exc.msg)
         ELSE Reply("rest", p, v, "http", 500, "HTTPException", NoEnvelope, InternalErrorDetail)

LayerReply(layer, p, v, env, exc) ==
    IF layer = "tool" THEN ToolReply(p, v, env, exc)
    ELSE IF layer = "rest" THEN RestReply(p, v, env, exc)
    ELSE DirectReply(p, v, env, exc)

\* the call ends in the step in which fetch_passage ends, the layers having no
\* await after it: the layer of the call gives its caller the reply
Finish(ended, env, exc) ==
    IF ended
    THEN \E layer \in Layers :
            /\ layer # "direct" => ValidRequest(passage, version)
            /\ reply' = LayerReply(layer, passage, version, env, exc)
    ELSE reply' = reply

\* lines 67-79 and 102: the call splits the passage and awaits its first fetch
Start ==
    /\ pc = "idle"
    /\ \E p \in Passages, v \in Versions :
        LET ps == SplitPassages(p)
        IN /\ passage' = p
           /\ version' = v
           /\ passages' = ps
           /\ FetchHtml(IF Len(ps) > 1 THEN FirstFetches(ps) ELSE {0}, p, v, ps, {})
    /\ pc' = "fetching"
    /\ results' = <<>>
    /\ resps' = <<>>
    /\ envelope' = NoEnvelope
    /\ escaped' = NoException
    /\ reply' = NoReply
    /\ UNCHANGED <<pvars, tvars>>

\* lines 164-168 and 128-139: the awaited fetch raises
RespondFailure ==
    /\ pc = "fetching"
    /\ \E r \in inflight, o \in Outcomes :
        LET e == RaisedBy(o)
        IN /\ e # NoException
           /\ resps' = Append(resps, o)
           /\ IF CaughtByHandler(e)
              THEN /\ envelope' = FailureEnvelope(passage, version, e)
                   /\ escaped' = escaped
              ELSE /\ envelope' = envelope
                   /\ escaped' = e
           /\ LET more == IF CaughtByHandler(e) /\ r.ix > 0
                          THEN FetchesAfterFailure(passages, r.ix) ELSE {}
              IN /\ FetchHtml(more, passage, version, passages, inflight \ {r})
                 /\ pc' = IF more = {} THEN "done" ELSE "fetching"
                 /\ Finish(more = {}, envelope', escaped')
    /\ UNCHANGED <<passage, version, passages, results, pvars, tvars>>

\* lines 79-98: a reference's page arrives in the loop
RespondMulti ==
    /\ pc = "fetching"
    /\ \E r \in inflight, o \in Outcomes :
        /\ r.ix > 0
        /\ RaisedBy(o) = NoException
        /\ resps' = Append(resps, o)
        /\ LET text == ParsePassage(o.page)
               blocks == Append(results, Block(r.search, text))
               more == NextFetches(passages, r.ix)
           IN /\ results' = blocks
              /\ FetchHtml(more, passage, version, passages, inflight \ {r})
              /\ IF more = {}
                 THEN /\ pc' = "done"
                      /\ envelope' = SuccessEnvelope(passage, version, Some(CombinedText(blocks)))
                 ELSE /\ pc' = "fetching"
                      /\ envelope' = envelope
              /\ Finish(more = {}, envelope', escaped)
    /\ UNCHANGED <<passage, version, passages, escaped, pvars, tvars>>

\* lines 102-126: the single passage's page arrives
RespondSingle ==
    /\ pc = "fetching"
    /\ \E r \in inflight, o \in Outcomes :
        /\ r.ix = 0
        /\ RaisedBy(o) = NoException
        /\ resps' = Append(resps, o)
        /\ envelope' = SingleEnvelope(passage, version, ParsePassage(o.page))
        /\ inflight' = inflight \ {r}
        /\ Finish(TRUE, envelope', escaped)
    /\ pc' = "done"
    /\ UNCHANGED <<client, created, passage, version, passages, results, log, escaped, pvars, tvars>>

\* tool.py lines 74-77 and routes.py line 39: a request that GetPassageRequest
\* rejects never comes to fetch_passage; pydantic's ValidationError is a
\* ValueError, FastAPI answers it with status 422
Reject ==
    /\ pc = "idle"
    /\ \E layer \in Layers \ {"direct"}, p \in Passages, v \in Versions :
        /\ ~ValidRequest(p, v)
        /\ reply' = IF layer = "tool"
                    THEN Reply("tool", p, v, "raise", 0, "ValueError", NoEnvelope, <<>>)
                    ELSE Reply("rest", p, v, "http", 422, "RequestValidationError",
                               NoEnvelope, <<>>)
    /\ UNCHANGED <<client, created, pc, passage, version, passages, results, inflight,
                   log, resps, envelope, escaped, pvars, tvars>>

\* the caller has the reply; the service waits for its next call
Return ==
    /\ pc = "done"
    /\ pc' = "idle"
    /\ reply' = NoReply
    /\ passage' = <<>>
    /\ version' = ""
    /\ passages' = <<>>
    /\ results' = <<>>
    /\ inflight' = {}
    /\ log' = <<>>
    /\ resps' = <<>>
    /\ envelope' = NoEnvelope
    /\ escaped' = NoException
    /\ UNCHANGED <<client, created, pvars, tvars>>

Next == Start \/ Reject \/ RespondFailure \/ RespondMulti \/ RespondSingle \/ Return

Spec == Init /\ [][Next]_vars


(***************************************************************************)
(* Calls of fetch_passage that run together on the one service, as tasks   *)
(* of one asyncio event loop: a call runs until it comes to an await, and  *)
(* only then another call runs, or a cancellation is delivered.            *)
(***************************************************************************)
\* the passages and outcomes of the calls that run together
TaskPassages == {<<"a">>, <<"a", ";", "b">>}
TaskOutcomes ==
    {o \in Outcomes : \/ o.kind = "response" /\ o.status = 200
                                              /\ o.page \in {PageVerse, PageNoContainer}
                      \/ o.kind = "exception" /\ o.cls = "ReadTimeout"}

\* the variables of the single call above, which does not run here
callvars == <<pc, passage, version, passages, results, inflight, log, resps, envelope,
              escaped, reply>>

\* a variant with an await between the test and the assignment
YieldsAfterCheckAwait == TRUE

\* lines 155-156: no await stands between `if not self._client` and the
\* assignment to self._client
YieldsAfterCheck == FALSE

\* the call the loop runs after the test of line 155
RunningAfterCheck(t) == IF YieldsAfterCheck THEN 0 ELSE t

\* a variant in which the cancelled fetch closes the client and forgets it
ClientAfterCancelForgotten(c) == 0

\* lines 164-166 and 128: the CancelledError passes through _fetch_html and
\* fetch_passage, which have no handler for it and no finally: self._client stays
ClientAfterCancel(c) == c

\* a variant whose handler closes the client and forgets it
ClientAfterFailureForgotten(c) == 0

\* lines 128-139: the handler builds the envelope and leaves self._client
ClientAfterFailure(c) == c

\* asyncio.CancelledError, a BaseException that `except Exception` lets pass
CancelledError == [cls |-> "CancelledError", msg |-> <<>>]

\* a variant whose results are an attribute of the service, never emptied
ResultsBeforeLoopKept(t) == IF t = 1 THEN <<>> ELSE calls[1].results

\* line 77: results = []
ResultsBeforeLoop(t) == <<>>

\* lines 67-79, 102 and 155: the call splits its passage, goes into _fetch_html
\* for its first fetch and tests self._client
TCall(t) ==
    /\ running = 0
    /\ calls[t].pc = "idle"
    /\ \E p \in TaskPassages, v \in Versions :
        LET ps == SplitPassages(p)
        IN calls' = [calls EXCEPT ![t] =
                [IdleCall EXCEPT !.pc = "checked", !.passage = p, !.version = v,
                                 !.passages = ps,
                                 !.ix = IF Len(ps) > 1 THEN 1 ELSE 0,
                                 !.saw = client,
                                 !.results = ResultsBeforeLoop(t),
                                 !.after = past,
                                 !.began = client]]
    /\ running' = RunningAfterCheck(t)
    /\ UNCHANGED <<client, created, past, callvars, pvars>>

\* lines 156-166: the call makes the client when its test found none, sends the
\* request through self._client and awaits the response
TSend(t) ==
    /\ calls[t].pc = "checked"
    /\ running = RunningAfterCheck(t)
    /\ LET c == IF calls[t].saw = 0 THEN created + 1 ELSE client
           call == calls[t]
           req == [ix |-> call.ix,
                   search |-> IF call.ix = 0 THEN call.passage ELSE call.passages[call.ix],
                   version |-> call.version, client |-> c]
       IN /\ client' = c
          /\ created' = IF call.saw = 0 THEN created + 1 ELSE created
          /\ calls' = [calls EXCEPT ![t].pc = "fetching", ![t].sent = Append(call.sent, req)]
    /\ running' = 0
    /\ UNCHANGED <<past, callvars, pvars>>

\* lines 164-169 and 79-139: the response arrives and the call runs on, to its
\* end or to the test of self._client for its next fetch
TRespond(t) ==
    /\ running = 0
    /\ calls[t].pc = "fetching"
    /\ \E o \in TaskOutcomes :
        LET call == calls[t]
            e == RaisedBy(o)
            got == [call EXCEPT !.resps = Append(call.resps, o)]
            text == ParsePassage(o.page)
            blocks == Append(call.results, Block(call.passages[call.ix], text))
        IN IF e # NoException
           THEN /\ calls' = [calls EXCEPT ![t] =
                        IF CaughtByHandler(e)
                        THEN [got EXCEPT !.pc = "done",
                                  !.envelope = FailureEnvelope(call.passage, call.version, e)]
                        ELSE [got EXCEPT !.pc = "done", !.escaped = e]]
                /\ running' = 0
           ELSE IF call.ix = 0
           THEN /\ calls' = [calls EXCEPT ![t] =
                        [got EXCEPT !.pc = "done",
                             !.envelope = SingleEnvelope(call.passage, call.version, text)]]
                /\ running' = 0
           ELSE IF NextFetches(call.passages, call.ix) = {}
           THEN /\ calls' = [calls EXCEPT ![t] =
                        [got EXCEPT !.pc = "done", !.results = blocks,
                             !.envelope = SuccessEnvelope(call.passage, call.version,
                                                          Some(CombinedText(blocks)))]]
                /\ running' = 0
           ELSE /\ calls' = [calls EXCEPT ![t] =
                        [got EXCEPT !.pc = "checked", !.results = blocks,
                             !.ix = call.ix + 1, !.saw = client]]
                /\ running' = RunningAfterCheck(t)
    /\ past' = IF calls'[t].pc # "done" THEN past
               ELSE IF calls'[t].envelope # NoEnvelope /\ calls'[t].envelope.success
                    THEN past \cup {"returned"}
                    ELSE past \cup {"failed"}
    /\ client' = IF calls'[t].resps # <<>> /\ RaisedBy(calls'[t].resps[Len(calls'[t].resps)]) # NoException
                 THEN ClientAfterFailure(client) ELSE client
    /\ UNCHANGED <<created, callvars, pvars>>

\* line 164: the call is cancelled at its await; the CancelledError leaves
\* fetch_passage
TCancel(t) ==
    /\ running = 0
    /\ calls[t].pc = "fetching"
    /\ calls' = [calls EXCEPT ![t].pc = "cancelled", ![t].escaped = CancelledError]
    /\ client' = ClientAfterCancel(client)
    /\ past' = past \cup {"cancelled"}
    /\ UNCHANGED <<created, running, callvars, pvars>>

\* the caller has the envelope or the exception
TReturn(t) ==
    /\ running = 0
    /\ calls[t].pc \in {"done", "cancelled"}
    /\ calls' = [calls EXCEPT ![t] = IdleCall]
    /\ UNCHANGED <<client, created, running, past, callvars, pvars>>

TNext == \E t \in Tasks : TCall(t) \/ TSend(t) \/ TRespond(t) \/ TCancel(t) \/ TReturn(t)

SpecTasks == Init /\ [][TNext]_vars


(***************************************************************************)
(* What the claims about _parse_passage speak of, said of the page itself. *)
(***************************************************************************)
Chars(str) == {str[i] : i \in 1..Len(str)}

\* the first div of class passage-text of the page, 0 if it has none
TheContainer ==
    LET cs == {i \in 1..Len(doc) : doc[i].tag = "div" /\ "passage-text" \in doc[i].cls}
    IN IF cs = {} THEN 0 ELSE CHOOSE i \in cs : \A j \in cs : i <= j

\* the nodes inside the container pd
Inside(pd) == IF pd = 0 THEN {} ELSE {i \in 1..Len(doc) : IsUnder(doc, i, pd)}

\* the roots of the subtrees the extraction discards, among the nodes `inside`
DiscardedRoots(inside) ==
    {i \in inside :
        \/ /\ doc[i].tag \in {"div", "h4"}
           /\ doc[i].cls \cap {"footnotes", "crossrefs", "passage-other-trans"} # {}
        \/ doc[i].tag = "h3"
        \/ doc[i].tag = "a"
        \/ doc[i].tag = "sup" /\ doc[i].cls \cap {"footnote", "crossreference"} # {}}

\* the nodes of `inside` in no discarded subtree
Remaining(inside, roots) ==
    {i \in inside : i \notin roots /\ \A j \in roots : ~IsUnder(doc, i, j)}

\* the text nodes of the paragraphs that remain
RemainingTexts ==
    LET inside == Inside(TheContainer)
        rem == Remaining(inside, DiscardedRoots(inside))
        paras == {q \in rem : doc[q].tag = "p"}
    IN {i \in rem : doc[i].tag = "#text" /\ \E q \in paras : IsUnder(doc, i, q)}

\* the characters of the texts of the paragraphs that remain
RemainingChars == UNION {Chars(doc[t].text) : t \in RemainingTexts}

Visible(str) == Chars(str) \ Whitespace # {}

\* the nodes directly below node j
ChildrenOf(j) == {i \in 1..Len(doc) : doc[i].parent = j}

\* a paragraph holding one text, without white space, and nothing else
PlainParagraph(q) ==
    /\ doc[q].tag = "p"
    /\ \E t \in ChildrenOf(q) :
        /\ ChildrenOf(q) = {t}
        /\ doc[t].tag = "#text"
        /\ doc[t].text # <<>>
        /\ Chars(doc[t].text) \cap Whitespace = {}

TextOfPlain(q) == doc[CHOOSE t \in ChildrenOf(q) : TRUE].text

\* the container holds a poetry container with the two line paragraphs l1 and l2
\* and the ordinary paragraph q elsewhere, and nothing else
PoemShape(pt, l1, l2, q) ==
    /\ TheContainer # 0
    /\ ChildrenOf(TheContainer) = {pt, q}
    /\ doc[pt].tag = "div" /\ doc[pt].cls = {"poetry"}
    /\ l1 < l2
    /\ ChildrenOf(pt) = {l1, l2}
    /\ PlainParagraph(l1) /\ doc[l1].cls = {"line"}
    /\ PlainParagraph(l2) /\ doc[l2].cls = {"line"}
    /\ PlainParagraph(q) /\ doc[q].cls = {}

\* C8: for a page whose container holds a poetry container with two line
\* paragraphs and one ordinary paragraph elsewhere, _parse_passage returns the
\* ordinary paragraph's text, then the two poetry lines, joined by newlines,
\* wherever the poetry container stands.
C8_ProseThenPoetry ==
    ppc = "parsed" =>
        \A pt, l1, l2, q \in 1..Len(doc) :
            PoemShape(pt, l1, l2, q) =>
                out = Some(TextOfPlain(q) \o <<"\n">> \o TextOfPlain(l1)
                           \o <<"\n">> \o TextOfPlain(l2))

\* C9: the text _parse_passage returns holds nothing of a discarded subtree
\* (the blocks of footnotes, cross-references and other translations, the h3
\* headings, the links, the footnote and cross-reference markers): each of its
\* characters that is no white space stands in a text of a remaining paragraph.
C9_NoRemovedContent ==
    ppc = "parsed" /\ ~out.isNone =>
        Chars(out.s) \ Whitespace \subseteq RemainingChars

\* a parsed page with a discarded heading, link, marker and block, each holding a
\* text that no remaining paragraph has, and with text returned
C9_Witness ==
    /\ ppc = "parsed"
    /\ ~out.isNone
    /\ \A tag \in {"h3", "a", "sup", "div"} :
         \E j \in DiscardedRoots(Inside(TheContainer)), t \in 1..Len(doc) :
            /\ doc[j].tag = tag
            /\ IsUnder(doc, t, j)
            /\ "n" \in Chars(doc[t].text)
    /\ "n" \notin RemainingChars
    /\ RemainingChars # {}

Lines(str) == StrSplit(str, "\n")

Failed(k) == RaisedBy(resps[k]) # NoException

SomeFailure == \E k \in 1..Len(resps) : Failed(k)

\* the call runs in multi-reference mode
MultiMode == Len(passages) > 1

\* the text extracted from the k-th page received
Extracted(k) == ParsePassage(resps[k].page)

\* C1: the envelope fetch_passage returns has success true exactly when its text
\* is present and its error absent, and has no text when success is false.
C1_EnvelopeInvariant ==
    envelope # NoEnvelope =>
        /\ envelope.success <=> (~envelope.text.isNone /\ envelope.error.isNone)
        /\ ~envelope.success => envelope.text.isNone

\* a batch that got a page without the container returned a success envelope
C1_Witness ==
    /\ pc = "done"
    /\ envelope # NoEnvelope
    /\ envelope.success
    /\ ~envelope.text.isNone
    /\ envelope.error.isNone
    /\ \E k \in 1..Len(resps) : ~Failed(k) /\ Extracted(k).isNone

\* C2: in multi-reference mode a transport failure of the fetch for reference k
\* ends the call at once: k fetches were sent and no more, and the envelope is
\* success false, no text, the failure's message as error.
C2_BatchAbort ==
    MultiMode /\ SomeFailure =>
        LET k == Len(resps)
        IN /\ \A j \in 1..(k - 1) : ~Failed(j)
           /\ Failed(k)
           /\ pc = "done"
           /\ inflight = {}
           /\ Len(log) = k
           /\ envelope = [success |-> FALSE, passage |-> passage, version |-> version,
                          text |-> None, error |-> Some(RaisedBy(resps[k]).msg)]

\* the second of three references failed after the first gave its block
C2_Witness ==
    /\ pc = "done"
    /\ Len(passages) = 3
    /\ Len(resps) = 2
    /\ Failed(2)
    /\ Len(results) = 1
    /\ Len(log) = 2
    /\ envelope.text.isNone

PlaceholderText ==
    << "[", "C", "o", "u", "l", "d", " ", "n", "o", "t", " ", "p", "a", "r", "s", "e",
       " ", "p", "a", "s", "s", "a", "g", "e", " ", "t", "e", "x", "t", "]" >>

\* the block of the k-th reference, as the claim words it
ExpectedBlock(k) ==
    passages[k] \o <<"\n">>
        \o (IF Extracted(k).isNone THEN PlaceholderText ELSE Extracted(k).s)

RECURSIVE ExpectedBatchText(_)
\* the blocks 1..n with a blank line between them
ExpectedBatchText(n) ==
    IF n = 1 THEN ExpectedBlock(1)
    ELSE ExpectedBatchText(n - 1) \o <<"\n", "\n">> \o ExpectedBlock(n)

\* C3: a multi-reference call without transport failure returns success true
\* with the blocks of all references, in split order, a blank line between them:
\* the reference, a newline and its text, or the placeholder when the
\* extraction found none.
C3_BatchText ==
    pc = "done" /\ MultiMode /\ ~SomeFailure =>
        /\ Len(resps) = Len(passages)
        /\ envelope = [success |-> TRUE, passage |-> passage, version |-> version,
                       text |-> Some(ExpectedBatchText(Len(passages))), error |-> None]

\* two references, the first with text, the second a parse-miss
C3_Witness ==
    /\ pc = "done"
    /\ Len(passages) = 2
    /\ Len(resps) = 2
    /\ ~SomeFailure
    /\ ~Extracted(1).isNone
    /\ Extracted(2).isNone
    /\ envelope.success

\* C4: in single-reference mode a page whose extraction gives None makes the
\* envelope success false, no text, error "Could not parse passage text"; a page
\* with text makes it success true with that text and no error; passage and
\* version are the call's own.
C4_SingleEnvelope ==
    pc = "done" /\ Len(passages) = 1 /\ ~SomeFailure =>
        /\ Len(resps) = 1
        /\ envelope =
              IF Extracted(1).isNone
              THEN [success |-> FALSE, passage |-> passage, version |-> version,
                    text |-> None,
                    error |-> Some(SubSeq(PlaceholderText, 2, Len(PlaceholderText) - 1))]
              ELSE [success |-> TRUE, passage |-> passage, version |-> version,
                    text |-> Extracted(1), error |-> None]

\* a single reference given with white space around it, and a parse-miss
C4_Witness ==
    /\ pc = "done"
    /\ Len(passages) = 1
    /\ passage # passages[1]
    /\ ~SomeFailure
    /\ Extracted(1).isNone
    /\ ~envelope.success
    /\ envelope.passage = passage

\* C5: a transport failure, in either mode, never leaves fetch_passage as an
\* exception: the call ends with a failure envelope whose error is the
\* failure's message.
C5_FailureCaught ==
    /\ escaped = NoException
    /\ SomeFailure =>
          /\ pc = "done"
          /\ envelope # NoEnvelope
          /\ ~envelope.success
          /\ envelope.error = Some(RaisedBy(resps[Len(resps)]).msg)

\* a single passage's fetch timed out, with an empty message
C5_Witness ==
    /\ pc = "done"
    /\ ~MultiMode
    /\ Len(resps) = 1
    /\ resps[1].kind = "exception"
    /\ resps[1].cls = "ReadTimeout"
    /\ envelope.error = Some(<<>>)

\* C6: the references of a multi-reference call are fetched one after the
\* other, in split order: at most one fetch is awaited, and the fetch for
\* reference i+1 is sent only when reference i has its block.
C6_Sequential ==
    /\ Cardinality(inflight) <= 1
    /\ MultiMode =>
          /\ Len(log) <= Len(results) + 1
          /\ \A i \in 1..Len(log) : log[i].ix = i /\ log[i].search = passages[i]
          /\ pc = "fetching" => inflight = {log[Len(log)]} /\ Len(log) = Len(results) + 1

\* the second of three fetches is awaited, the first reference has its block
C6_Witness ==
    /\ pc = "fetching"
    /\ Len(passages) = 3
    /\ Len(log) = 2
    /\ Len(results) = 1
    /\ Cardinality(inflight) = 1

\* the places of the semicolons of str, with both ends
Cuts(str) == SetToSeq({0, Len(str) + 1} \cup {i \in 1..Len(str) : str[i] = ";"})

\* str from its first to its last character that is no white space
Trimmed(str) ==
    LET solid == {i \in 1..Len(str) : str[i] \notin Whitespace}
    IN IF solid = {} THEN <<>>
       ELSE SubSeq(str, CHOOSE i \in solid : \A j \in solid : i <= j,
                        CHOOSE i \in solid : \A j \in solid : i >= j)

\* the trimmed segments of str between its semicolons, the empty ones dropped
ExpectedReferences(str) ==
    LET cuts == Cuts(str)
        segs == [k \in 1..(Len(cuts) - 1) |->
                    Trimmed(SubSeq(str, cuts[k] + 1, cuts[k + 1] - 1))]
    IN SelectSeq(segs, LAMBDA x : x # <<>>)

\* C7: the split of the passage is the list of its segments between semicolons,
\* trimmed, the empty ones dropped, in order and with duplicates kept; each
\* element is non-empty, trimmed and without semicolon; a passage of white space
\* and semicolons only gives the empty list.
C7_Split ==
    pc # "idle" =>
        /\ passages = ExpectedReferences(passage)
        /\ \A i \in 1..Len(passages) :
              /\ passages[i] # <<>>
              /\ passages[i][1] \notin Whitespace
              /\ passages[i][Len(passages[i])] \notin Whitespace
              /\ ";" \notin Chars(passages[i])
        /\ Chars(passage) \subseteq Whitespace \cup {";"} => passages = <<>>

\* a passage with the same reference twice, white space and an empty segment
C7_Witness ==
    /\ pc # "idle"
    /\ Len(passages) = 2
    /\ passages[1] = passages[2]
    /\ " " \in Chars(passage)
    /\ Len(StrSplit(passage, ";")) = 3


(***************************************************************************)
(* What the claims about the client of the service speak of.               *)
(***************************************************************************)
\* C11: the service has no client until its first fetch, the first fetch makes
\* it, and no later step of any call, whatever its outcome, makes another one or
\* takes it away: every fetch goes through that one client.
C11_OneClient ==
    /\ client = 0 /\ created = 0
    /\ [][ /\ client = 0 => log = <<>> /\ inflight = {}
           /\ client = 0 /\ log' = <<>> => client' = 0 /\ created' = 0
           /\ client = 0 /\ log' # <<>> => client' # 0 /\ created' = 1
           /\ client # 0 => client' = client /\ created' = created
           /\ \A i \in 1..Len(log') : log'[i].client = client' ]_vars

\* the second fetch of a call goes through the client its first fetch made, the
\* first reference's page having given no text
C11_Witness ==
    /\ pc = "fetching"
    /\ client = 1
    /\ created = 1
    /\ Len(log) = 2
    /\ log[1].client = 1
    /\ log[2].client = 1
    /\ Len(resps) = 1
    /\ Extracted(1).isNone

\* the calls that have sent their first fetch and wait for its response
AtFirstFetch == {t \in Tasks : calls[t].pc = "fetching" /\ Len(calls[t].sent) = 1}

\* C12, as claimed: when two calls have come to their first fetch together on a
\* service no call of which has ended, each of them has made a client
C12_BothConstruct ==
    AtFirstFetch = Tasks /\ past = {} => created > 1

\* C12, amended: the test and the construction are one step of the event loop,
\* so of the calls that run together one makes the client and the others use
\* it; no second client is ever made
C12_OneConstructs ==
    /\ created <= 1
    /\ client = created
    /\ \A t \in Tasks : \A i \in 1..Len(calls[t].sent) : calls[t].sent[i].client = 1
    /\ \A t \in Tasks : calls[t].pc = "checked" => calls[t].saw = client

\* both calls wait for their first response, on a service that had no client
\* when the first of them began: one client was made
C12_Witness ==
    /\ AtFirstFetch = Tasks
    /\ past = {}
    /\ created = 1
    /\ \A t \in Tasks : calls[t].sent[1].client = 1

\* the calls t and u were given the same passage and version and got the same
\* responses
SameInputs(t, u) ==
    /\ calls[t].passage = calls[u].passage
    /\ calls[t].version = calls[u].version
    /\ calls[t].resps = calls[u].resps

\* C13: two calls on the same service with the same passage and version and the
\* same upstream responses end with the same envelope, whether or not the
\* client existed when they began and however earlier calls ended.
C13_SameEnvelope ==
    \A t, u \in Tasks :
        calls[t].pc = "done" /\ calls[u].pc = "done" /\ SameInputs(t, u) =>
            /\ calls[t].envelope = calls[u].envelope
            /\ calls[t].escaped = calls[u].escaped
            /\ calls[t].envelope # NoEnvelope

\* the first call began before any call on the service had ended; the second
\* began after a call had failed, found the client, and got the same two pages
C13_Witness ==
    /\ calls[1].pc = "done"
    /\ calls[2].pc = "done"
    /\ SameInputs(1, 2)
    /\ Len(calls[1].resps) = 2
    /\ calls[1].after = {}
    /\ calls[1].sent[1].client = 1
    /\ "failed" \in calls[2].after
    /\ calls[1].envelope.success
    /\ calls[1].envelope = calls[2].envelope

\* the call t began after a call on the service had been cancelled
AfterCancel(t) == "cancelled" \in calls[t].after

\* C15: a call cancelled at the await of its fetch ends there, with the
\* CancelledError and no envelope, and the service keeps the client the fetch
\* went through; a call that begins afterwards sends the same requests through
\* that client and ends with the same envelope as a call with the same passage,
\* version and responses that began with no cancellation before it.
C15_CancelKeepsClient ==
    /\ "cancelled" \in past => client = 1 /\ created = 1
    /\ \A t \in Tasks :
          calls[t].pc = "cancelled" =>
              /\ calls[t].escaped = CancelledError
              /\ calls[t].envelope = NoEnvelope
              /\ Len(calls[t].sent) = Len(calls[t].resps) + 1
              /\ calls[t].sent[Len(calls[t].sent)].client = client
              /\ "cancelled" \in past
    /\ \A t, u \in Tasks :
          /\ calls[t].pc = "done" /\ AfterCancel(t)
          /\ calls[u].pc = "done" /\ ~AfterCancel(u)
          /\ SameInputs(t, u)
          => /\ calls[t].sent = calls[u].sent
             /\ calls[t].envelope = calls[u].envelope
             /\ calls[t].escaped = NoException

\* the first call was cancelled at its second fetch; the second call began
\* after that, fetched both its references through the same client and has its
\* envelope with their text
C15_Witness ==
    /\ calls[1].pc = "cancelled"
    /\ Len(calls[1].sent) = 2
    /\ calls[2].pc = "done"
    /\ AfterCancel(2)
    /\ Len(calls[2].sent) = 2
    /\ calls[2].sent[2].client = calls[1].sent[2].client
    /\ calls[2].envelope.success
    /\ client = 1

\* the call t began after a call on the service had failed
AfterFailure(t) == "failed" \in calls[t].after

\* the call t began on the service as __init__ left it: no client, no call ended
OnFresh(t) == calls[t].began = 0 /\ calls[t].after = {}

\* C21: once calls on the service have failed, by a transport failure or a
\* parse-miss, the service has its one client, made by the first fetch whether
\* it failed or not, and nothing else of it differs from a new service: a call
\* that begins afterwards and gets pages with text sends the same requests and
\* returns the same success envelope as the same call on a new service.
C21_NotPoisoned ==
    /\ past # {} => client = 1 /\ created = 1
    /\ "failed" \in past /\ (\A t \in Tasks : calls[t].pc = "idle") =>
          /\ calls = [t \in Tasks |-> IdleCall]
          /\ running = 0
    /\ \A t, u \in Tasks :
          /\ calls[t].pc = "done" /\ AfterFailure(t)
          /\ calls[u].pc = "done" /\ OnFresh(u)
          /\ SameInputs(t, u)
          /\ \A k \in 1..Len(calls[t].resps) : RaisedBy(calls[t].resps[k]) = NoException
          => /\ calls[t].envelope = calls[u].envelope
             /\ calls[t].sent = calls[u].sent
             /\ calls[t].envelope.success <=>
                    (Len(calls[t].passages) > 1 \/ ~ParsePassage(calls[t].resps[1].page).isNone)

\* the first call of the service got its two pages; the second call began after
\* a call had failed and nothing else, got the same pages and has the same
\* success envelope
C21_Witness ==
    /\ calls[1].pc = "done"
    /\ OnFresh(1)
    /\ calls[2].pc = "done"
    /\ calls[2].after = {"failed"}
    /\ SameInputs(1, 2)
    /\ Len(calls[2].resps) = 2
    /\ calls[2].envelope.success
    /\ calls[2].envelope = calls[1].envelope
    /\ client = 1


(***************************************************************************)
(* What the claims about the requests and the layers speak of.             *)
(***************************************************************************)
\* C14: the version given to fetch_passage, listed as supported or not, is the
\* version parameter of every fetch of the call, and the version of the
\* envelope, whatever the outcome.
C14_VersionPassed ==
    pc # "idle" =>
        /\ Len(log) >= 1
        /\ \A i \in 1..Len(log) : log[i].version = version
        /\ \A r \in inflight : r.version = version
        /\ envelope # NoEnvelope => envelope.version = version
        /\ pc = "done" => envelope # NoEnvelope
        /\ reply # NoReply /\ reply.kind = "return" => reply.body.version = version

\* a version the server does not list went to the site with both references
\* and came back in a success envelope
C14_Witness ==
    /\ pc = "done"
    /\ version \notin SupportedVersions
    /\ Len(log) = 2
    /\ log[1].version = version
    /\ log[2].version = version
    /\ envelope.success
    /\ envelope.version = version

\* C16: the tool get_passage, asked for a version that is not one of the
\* supported ones, raises a ValueError and returns no envelope.
C16_UnsupportedVersionRaises ==
    reply # NoReply /\ reply.layer = "tool" /\ reply.version \notin SupportedVersions =>
        /\ reply.kind = "raise"
        /\ reply.cls = "ValueError"
        /\ reply.body = NoEnvelope

\* the call failed: a transport failure, or no text in the single passage's page
CallFailed == SomeFailure \/ (~MultiMode /\ Extracted(1).isNone)

\* C17: through the REST endpoint every call that came to the service is
\* answered with the envelope fetch_passage returned, with status 200; when the
\* call failed in the service this is the envelope with success false, no text
\* and the error, and never an HTTPException with status 400 or 500.
C17_RestEnvelope ==
    pc = "done" /\ reply # NoReply /\ reply.layer = "rest" =>
        /\ reply.kind = "return"
        /\ reply.status = 200
        /\ reply.body = envelope
        /\ CallFailed =>
              /\ ~reply.body.success
              /\ reply.body.text.isNone
              /\ ~reply.body.error.isNone

\* the second fetch of a call through the REST endpoint was refused: the
\* client gets the failure envelope with the message
C17_Witness ==
    /\ pc = "done"
    /\ reply # NoReply
    /\ reply.layer = "rest"
    /\ Len(resps) = 2
    /\ resps[2].cls = "ConnectError"
    /\ reply.kind = "return"
    /\ ~reply.body.success
    /\ reply.body.error = Some(<<"r", "e", "f", "u", "s", "e", "d">>)

\* C18: when the split gives one reference, one fetch is sent and its search
\* parameter is that reference: trimmed, not empty, without semicolon, also
\* when the passage has white space or semicolons around the reference.
C18_SingleSearchTrimmed ==
    pc # "idle" /\ Len(passages) = 1 =>
        /\ Len(log) = 1
        /\ log[1].search = passages[1]
        /\ log[1].search # <<>>
        /\ log[1].search[1] \notin Whitespace
        /\ log[1].search[Len(log[1].search)] \notin Whitespace
        /\ ";" \notin Chars(log[1].search)

\* the fetches a call without failure sends
FetchesDue == IF MultiMode THEN Len(passages) ELSE 1

\* C19: a call fetches each reference of its split at most once, duplicates
\* being references of their own, and exactly once when no fetch fails; a fetch
\* that timed out or failed otherwise is not sent again: the call ends with
\* the failure envelope, as many fetches sent as responses came.
C19_NoRetry ==
    pc # "idle" =>
        /\ Len(log) <= FetchesDue
        /\ \A i, j \in 1..Len(log) : i # j => log[i].ix # log[j].ix
        /\ pc = "done" /\ ~SomeFailure =>
              /\ Len(log) = FetchesDue
              /\ MultiMode => \A i \in 1..Len(log) : log[i].search = passages[i]
        /\ SomeFailure =>
              /\ pc = "done"
              /\ inflight = {}
              /\ Len(log) = Len(resps)
              /\ \A k \in 1..(Len(resps) - 1) : ~Failed(k)
              /\ ~envelope.success

\* the same reference twice and a third one: the first fetch gave its page, the
\* second, for the same reference, timed out and was the last one sent
C19_Witness ==
    /\ pc = "done"
    /\ Len(passages) = 3
    /\ passages[1] = passages[2]
    /\ Len(log) = 2
    /\ log[1].search = log[2].search
    /\ Len(resps) = 2
    /\ resps[2].cls = "ReadTimeout"
    /\ ~envelope.success
    /\ envelope.error = Some(<<>>)

\* C20: a passage whose split is empty goes the single passage's way: one
\* fetch, its search parameter the passage as given, and the single passage's
\* envelope for what came back: the failure's message, the parse-miss error, or
\* the page's text alone, with no reference line before it; no exception leaves
\* the call.
C20_EmptySplit ==
    pc # "idle" /\ passages = <<>> =>
        /\ Len(log) = 1
        /\ log[1].ix = 0
        /\ log[1].search = passage
        /\ results = <<>>
        /\ escaped = NoException
        /\ pc = "done" =>
              /\ Len(resps) = 1
              /\ envelope =
                    IF Failed(1)
                    THEN [success |-> FALSE, passage |-> passage, version |-> version,
                          text |-> None, error |-> Some(RaisedBy(resps[1]).msg)]
                    ELSE IF Extracted(1).isNone
                    THEN [success |-> FALSE, passage |-> passage, version |-> version,
                          text |-> None,
                          error |-> Some(SubSeq(PlaceholderText, 2, Len(PlaceholderText) - 1))]
                    ELSE [success |-> TRUE, passage |-> passage, version |-> version,
                          text |-> Extracted(1), error |-> None]

\* a passage of white space and a semicolon was sent as it is, and the page
\* that came back had text
C20_Witness ==
    /\ pc = "done"
    /\ passages = <<>>
    /\ " " \in Chars(passage)
    /\ ";" \in Chars(passage)
    /\ passage[1] = " "
    /\ Len(log) = 1
    /\ log[1].search = passage
    /\ envelope.success
    /\ envelope.text = Extracted(1)

=============================================================================
